---- MODULE Spec2Model ----
(***************************************************************************)
(* Model of tools/image-compression.py (class ImageCompressionTool):       *)
(* calculate_compression_quality, compress_image / compress_png,           *)
(* iterative_compress_image and the generator _invoke.                     *)
(*                                                                         *)
(* Byte strings are modelled by what the code can observe of them: where   *)
(* they come from (tag "orig" for input bytes, "enc" for the output of an  *)
(* encoder), the format and colour mode a decoder would report, the        *)
(* quality they were encoded with and their length.  The size an encoder   *)
(* produces (or its failure) is an outcome of the imaging library and is   *)
(* chosen nondeterministically at every encode.                            *)
(***************************************************************************)
EXTENDS Integers, Sequences, FiniteSets, TLC

\* ---------------------------------------------------------------- bounds
MaxBatch == 2

\* ------------------------------------------------------ program constants
MiB == 1048576
\* (variant: one iteration too many)
SixIterations == 5 + 1
max_iterations == 5
DefaultQuality == 95
PngFirstQuality == 5
PngSecondQuality == 1
MinQualityBound == 1
MaxQualityBound == 100
ExitWidth == 3

\* target_size is a float number of MB; it is modelled in quarters of a MB,
\* so that target_size * 1024 * 1024 is an exact integer.
TargetBytes(target_size) == (target_size * MiB) \div 4

Max(a, b) == IF a >= b THEN a ELSE b
Min(a, b) == IF a <= b THEN a ELSE b
Abs(a) == IF a < 0 THEN -a ELSE a

\* ------------------------------------------------------------ input sets
Lens == {200000, 262144, 300000}
Sizes == {100000, 200000, 262144, 270000, 400000}
Outcomes == [ok : BOOLEAN, size : Sizes]
CalcSizes == {0, 1, 100000, 262143, 262144, 262145, 264000, 264779, 300000,
              400000, 524288, 524289, 600000, 1000000, 5000000, 26214400,
              26214401, 30000000, 52428800, 60000000}
Qualities == MinQualityBound..MaxQualityBound

\* Input bytes: what a decoder reports of them (format, mode) and their length.
Bytes(tag, fmt, mode, q, len) ==
    [tag |-> tag, fmt |-> fmt, mode |-> mode, q |-> q, len |-> len]
NoBytes == Bytes("none", "none", "none", 0, 0)
Images == {Bytes("orig", f[1], f[2], 0, n) :
              f \in {<<"PNG", "RGB">>, <<"PNG", "RGBA">>, <<"PNG", "LA">>, <<"JPEG", "RGB">>},
              n \in Lens}

\* A result dict of compress_image / iterative_compress_image; None is NoResult.
Result(file, format, filename, compressed) ==
    [file |-> file, format |-> format, size |-> file.len,
     filename |-> filename, compressed |-> compressed]
NoResult == Result(NoBytes, "none", "none", "absent")

\* -------------------------------------------- calculate_compression_quality
\* (variant: the lower clamp of lines 32-33 forgotten)
calculate_without_lower_clamp(original_size, target_size_mb) ==
    LET target_size_bytes == TargetBytes(target_size_mb) IN
    IF target_size_mb > 0 /\ original_size > target_size_bytes
    THEN Min((100 * target_size_bytes) \div original_size, MaxQualityBound)
    ELSE DefaultQuality

\* Lines 16-40
calculate_compression_quality(original_size, target_size_mb) ==
    LET target_size_bytes == TargetBytes(target_size_mb) IN
    IF target_size_mb > 0 /\ original_size > target_size_bytes
    THEN LET quality == (100 * target_size_bytes) \div original_size IN
         IF quality < MinQualityBound THEN MinQualityBound
         ELSE IF quality > MaxQualityBound THEN MaxQualityBound
         ELSE quality
    ELSE DefaultQuality

\* ------------------------------------------------- compress_image / _png
compress_png(img, quality, size) ==
    LET has_alpha == img.mode = "RGBA" IN
    Result(Bytes("enc", "PNG", IF has_alpha THEN "RGBA" ELSE "RGB", quality, size),
           "PNG", "compressed", "absent")

compress_image(image_file, quality, size) ==
    IF image_file.fmt = "PNG"
    THEN compress_png(image_file, quality, size)
    ELSE Result(Bytes("enc", image_file.fmt, "RGB", quality, size),
                image_file.fmt, "compressed", "absent")

\* ------------------------------------------------------------------ state
VARIABLES
    pc,                \* position of the running function
    caller,            \* "invoke", "direct" (iterative_compress_image called
                       \* on its own) or "calc"
    imgs,              \* tool_parameters["input_image"]: [kind, items]
    target_size,       \* tool_parameters["target_size"], in quarters of a MB
    idx,               \* number of batch items the for loop has taken
    out,               \* the messages yielded so far
    input_image_bytes, \* _invoke's local
    original_size,     \* _invoke's local / calculate_compression_quality's argument
    compressed_img,    \* the value returned to the caller
    ret_line,          \* source line of the return statement that produced it
    image_file,        \* iterative_compress_image's argument
    target_size_bytes, \* iterative_compress_image's argument
    initial_quality,   \* iterative_compress_image's argument
    quality, min_quality, max_quality, best_result, result, i,
    encodes,           \* history: encode passes of the current call
    observed,          \* history: sizes the binary search has seen
    loop_exc,          \* history: an iteration of the search raised
    final_encode       \* history: the encode of line 283 was done

invokeVars == <<imgs, target_size, idx, out, input_image_bytes, original_size>>
argVars == <<image_file, target_size_bytes, initial_quality>>
searchVars == <<quality, min_quality, max_quality, best_result, i>>
histVars == <<encodes, observed, loop_exc, final_encode>>
vars == <<pc, caller, invokeVars, compressed_img, ret_line, argVars,
          searchVars, result, histVars>>

NoInput == [kind |-> "none", items |-> <<>>]

IdleInvoke ==
    /\ imgs = NoInput
    /\ target_size = 0
    /\ idx = 0
    /\ out = <<>>
    /\ input_image_bytes = NoBytes
    /\ original_size = 0

IdleCall ==
    /\ compressed_img = NoResult
    /\ ret_line = 0
    /\ quality = 0
    /\ min_quality = 0
    /\ max_quality = 0
    /\ best_result = NoResult
    /\ result = NoResult
    /\ i = 0
    /\ encodes = 0
    /\ observed = {}
    /\ loop_exc = FALSE
    /\ final_encode = FALSE

\* ----------------------------------------------- iterative_compress_image
\* Line 263: abs(current_size - target) / target < 0.05
WithinBand(current_size, target) == 20 * Abs(current_size - target) < target

\* Line 259: the result replaces best_result
IsBetter(best, current_size, target) ==
    \/ best = NoResult
    \/ (current_size <= target /\ current_size > best.size)

\* (variant: the midpoint taken from the bounds before their update)
BisectStaleBound(q, mn, mx, current_size, target) ==
    IF current_size > target
    THEN [max_quality |-> q, min_quality |-> mn, quality |-> (mn + mx) \div 2]
    ELSE [max_quality |-> mx, min_quality |-> q, quality |-> (mn + mx) \div 2]

\* Lines 267-272: the bounds and the next quality
Bisect(q, mn, mx, current_size, target) ==
    IF current_size > target
    THEN [max_quality |-> q, min_quality |-> mn, quality |-> (mn + q) \div 2]
    ELSE [max_quality |-> mx, min_quality |-> q, quality |-> (q + mx) \div 2]

\* Line 210: the second PNG stage is tried
NeedsSecondPng(size, target) == 5 * size > 6 * target

\* (variant: the mode test of line 220 forgotten)
JpegEligibleAnyMode(size, target, mode) == size > target

\* Line 220: the JPEG stage is tried
JpegEligible(size, target, mode) == size > target /\ mode # "RGBA"

\* Line 232: the JPEG result is taken
JpegAccepted(jpeg_size, png_size) == 5 * jpeg_size < 4 * png_size

\* Line 226-227: the quality of the JPEG stage
JpegQuality(target, png_size) == Max(Min(70, (70 * target) \div png_size), 40)

Return(value, line) ==
    /\ compressed_img' = value
    /\ ret_line' = line
    /\ pc' = "returned"

Raise ==
    /\ pc' = "raised"
    /\ UNCHANGED <<compressed_img, ret_line>>

\* Lines 186-205 and 246-250: the short circuit, Image.open, the dispatch on
\* the format and the initial bounds of the search.
IterEntry ==
    /\ pc = "iter_entry"
    /\ UNCHANGED <<caller, invokeVars, argVars, result, histVars>>
    /\ IF image_file.len <= target_size_bytes
       THEN /\ Return(Result(image_file, "JPEG", "original", "false"), 190)
            /\ UNCHANGED searchVars
       ELSE \E opened \in BOOLEAN :
            IF ~opened
            THEN Raise /\ UNCHANGED searchVars
            ELSE IF image_file.fmt = "PNG"
            THEN /\ pc' = "png1"
                 /\ UNCHANGED <<compressed_img, ret_line, searchVars>>
            ELSE /\ pc' = "loop"
                 /\ quality' = initial_quality
                 /\ min_quality' = MinQualityBound
                 /\ max_quality' = MaxQualityBound
                 /\ best_result' = NoResult
                 /\ i' = 0
                 /\ UNCHANGED <<compressed_img, ret_line>>

\* Line 207: the first PNG stage; its failure is not caught.
PngStage1 ==
    /\ pc = "png1"
    /\ UNCHANGED <<caller, invokeVars, argVars, searchVars, loop_exc, final_encode>>
    /\ encodes' = encodes + 1
    /\ \E o \in Outcomes :
        IF ~o.ok
        THEN Raise /\ UNCHANGED <<result, observed>>
        ELSE /\ result' = compress_image(image_file, PngFirstQuality, o.size)
             /\ observed' = observed \cup {o.size}
             /\ pc' = "png2"
             /\ UNCHANGED <<compressed_img, ret_line>>

\* Lines 210-217: the second PNG stage; its failure is swallowed.
PngStage2 ==
    /\ pc = "png2"
    /\ UNCHANGED <<caller, invokeVars, argVars, searchVars, loop_exc,
                   final_encode, compressed_img, ret_line>>
    /\ pc' = "png3"
    /\ IF NeedsSecondPng(result.size, target_size_bytes)
       THEN /\ encodes' = encodes + 1
            /\ \E o \in Outcomes :
                LET secondary_result ==
                        compress_image(image_file, PngSecondQuality, o.size) IN
                /\ result' = IF o.ok /\ secondary_result.size < result.size
                             THEN secondary_result ELSE result
                /\ observed' = IF o.ok THEN observed \cup {o.size} ELSE observed
       ELSE UNCHANGED <<encodes, result, observed>>

\* Lines 220-244: the JPEG stage (its failure is swallowed) and the return.
PngStage3 ==
    /\ pc = "png3"
    /\ UNCHANGED <<caller, invokeVars, argVars, searchVars, observed, loop_exc,
                   final_encode, result>>
    /\ IF JpegEligible(result.size, target_size_bytes, image_file.mode)
       THEN /\ encodes' = encodes + 1
            /\ \E o \in Outcomes :
                IF o.ok /\ JpegAccepted(o.size, result.size)
                THEN Return(Result(Bytes("enc", "JPEG", "RGB",
                                         JpegQuality(target_size_bytes, result.size),
                                         o.size),
                                   "JPEG", "compressed", "absent"), 235)
                ELSE Return(result, 244)
       ELSE /\ Return(result, 244)
            /\ UNCHANGED encodes

\* Lines 253-280: one iteration of the binary search.
LoopIter ==
    /\ pc = "loop"
    /\ UNCHANGED <<caller, invokeVars, argVars, final_encode>>
    /\ encodes' = encodes + 1
    /\ \E o \in Outcomes :
        IF ~o.ok
        THEN /\ pc' = "after_loop"
             /\ loop_exc' = TRUE
             /\ UNCHANGED <<searchVars, result, observed, compressed_img, ret_line>>
        ELSE LET r == compress_image(image_file, quality, o.size)
                 current_size == r.size
                 b == Bisect(quality, min_quality, max_quality, current_size,
                             target_size_bytes)
             IN
             /\ result' = r
             /\ observed' = observed \cup {current_size}
             /\ best_result' = IF IsBetter(best_result, current_size, target_size_bytes)
                               THEN r ELSE best_result
             /\ UNCHANGED loop_exc
             /\ IF WithinBand(current_size, target_size_bytes)
                THEN /\ Return(r, 264)
                     /\ UNCHANGED <<quality, min_quality, max_quality, i>>
                ELSE /\ quality' = b.quality
                     /\ min_quality' = b.min_quality
                     /\ max_quality' = b.max_quality
                     /\ i' = i + 1
                     /\ pc' = IF b.max_quality - b.min_quality <= ExitWidth
                                 \/ i + 1 >= max_iterations
                              THEN "after_loop" ELSE "loop"
                     /\ UNCHANGED <<compressed_img, ret_line>>

\* Line 283: return best_result, or the result of one more encode.
AfterLoop ==
    /\ pc = "after_loop"
    /\ UNCHANGED <<caller, invokeVars, argVars, searchVars, result, observed,
                   loop_exc>>
    /\ IF best_result # NoResult
       THEN /\ Return(best_result, 283)
            /\ UNCHANGED <<encodes, final_encode>>
       ELSE /\ encodes' = encodes + 1
            /\ \E o \in Outcomes :
                IF ~o.ok
                THEN Raise /\ UNCHANGED final_encode
                ELSE /\ Return(compress_image(image_file, min_quality, o.size), 283)
                     /\ final_encode' = TRUE

IterNext == IterEntry \/ PngStage1 \/ PngStage2 \/ PngStage3 \/ LoopIter \/ AfterLoop

InitIter ==
    /\ pc = "iter_entry"
    /\ caller = "direct"
    /\ IdleInvoke
    /\ IdleCall
    /\ image_file \in Images
    /\ target_size_bytes \in {TargetBytes(1), TargetBytes(2)}
    /\ initial_quality \in Qualities

SpecIter == InitIter /\ [][IterNext]_vars

\* ----------------------------------------------------------------- _invoke
AllowedMime == {"image/jpeg", "image/png", "image/gif", "image/webp", "image/bmp"}

Source(kind, mime, fetch_ok, data) ==
    [kind |-> kind, mime |-> mime, fetch_ok |-> fetch_ok, data |-> data]

\* The batch items: raw bytes, File references (allowed or disallowed MIME
\* type, download succeeding or failing) and an object of another type.
Sources ==
    {Source("bytes", "none", TRUE, Bytes("orig", "JPEG", "RGB", 0, 300000)),
     Source("bytes", "none", TRUE, Bytes("orig", "PNG", "RGB", 0, 300000)),
     Source("bytes", "none", TRUE, Bytes("orig", "PNG", "RGBA", 0, 200000)),
     Source("file", "image/jpeg", TRUE, Bytes("orig", "JPEG", "RGB", 0, 262144)),
     Source("file", "image/tiff", TRUE, NoBytes),
     Source("file", "image/png", FALSE, NoBytes),
     Source("other", "none", TRUE, NoBytes)}

Batches == UNION {[1..n -> Sources] : n \in 1..MaxBatch}
Inputs == {NoInput, [kind |-> "scalar", items |-> <<>>]}
              \cup {[kind |-> "list", items |-> b] : b \in Batches}

Message(type, text, blob, filename, mime, size, src) ==
    [type |-> type, text |-> text, blob |-> blob, filename |-> filename,
     mime |-> mime, size |-> size, src |-> src]
JsonMessage(text, src) == Message("json", text, NoBytes, "none", "none", 0, src)

\* Line 360: f"image/{format.lower()}"
MimeOf(format) ==
    IF format = "PNG" THEN "image/png"
    ELSE IF format = "JPEG" THEN "image/jpeg"
    ELSE "image/other"

\* (variant: the size test of line 338 forgotten)
UseIterativeWheneverTarget(target, size, target_bytes) == target > 0

\* Line 338: the iterative search is used
UseIterative(target, size, target_bytes) == target > 0 /\ size > target_bytes

\* (variant: >= for >)
RegressedOrEqual(compressed_size, size) == compressed_size >= size

\* Line 350: the compression made the image larger
Regressed(compressed_size, size) == compressed_size > size

Suspended == pc \in {"for", "yield_json", "yield_blob"}

\* Lines 286-300: the checks of the batch argument
Validate ==
    /\ pc = "invoke"
    /\ UNCHANGED <<caller, imgs, target_size, idx, input_image_bytes, original_size,
                   compressed_img, ret_line, argVars, searchVars, result, histVars>>
    /\ IF imgs.kind = "none"
       THEN /\ out' = <<JsonMessage("please provide image file", 0)>>
            /\ pc' = "done"
       ELSE IF imgs.kind # "list"
       THEN /\ out' = <<JsonMessage("please provide image file list", 0)>>
            /\ pc' = "done"
       ELSE /\ pc' = "for"
            /\ UNCHANGED out

YieldJson(text) ==
    /\ out' = Append(out, JsonMessage(text, idx + 1))
    /\ pc' = "yield_json"
    /\ UNCHANGED <<input_image_bytes, original_size, argVars>>

\* Lines 334-347: the sizes and the choice of the compression
Dispatch(bytes) ==
    /\ input_image_bytes' = bytes
    /\ original_size' = bytes.len
    /\ target_size_bytes' = TargetBytes(target_size)
    /\ UNCHANGED out
    /\ IF UseIterative(target_size, bytes.len, TargetBytes(target_size))
       THEN /\ initial_quality' = calculate_compression_quality(bytes.len, target_size)
            /\ image_file' = bytes
            /\ pc' = "iter_entry"
       ELSE /\ pc' = "compress95"
            /\ UNCHANGED <<initial_quality, image_file>>

\* Lines 301-347: the for loop takes the next item, gets its bytes and
\* starts its compression, or reports the item and continues.
Fetch ==
    /\ Suspended
    /\ idx < Len(imgs.items)
    /\ idx' = idx + 1
    /\ UNCHANGED <<caller, imgs, target_size, compressed_img, ret_line,
                   searchVars, result, histVars>>
    /\ LET img == imgs.items[idx + 1] IN
       IF img.kind = "file"
       THEN IF img.mime \notin AllowedMime
            THEN YieldJson("Unsupported file type")
            ELSE IF ~img.fetch_ok
            THEN YieldJson("Failed to download image")
            ELSE Dispatch(img.data)
       ELSE IF img.kind = "bytes"
       THEN Dispatch(img.data)
       ELSE YieldJson("Unsupported image format")

\* The for loop is exhausted and the generator ends.
Finish ==
    /\ Suspended
    /\ idx = Len(imgs.items)
    /\ pc' = "done"
    /\ UNCHANGED <<caller, invokeVars, compressed_img, ret_line, argVars,
                   searchVars, result, histVars>>

\* Line 347: one encode at quality 95; its failure is not caught.
Compress95 ==
    /\ pc = "compress95"
    /\ UNCHANGED <<caller, invokeVars, argVars, searchVars, result, observed,
                   loop_exc, final_encode>>
    /\ encodes' = encodes + 1
    /\ \E o \in Outcomes :
        IF ~o.ok
        THEN Raise
        ELSE Return(compress_image(input_image_bytes, DefaultQuality, o.size), 347)

\* Lines 350-363: the safety check and the blob message.  The locals of the
\* call that returned are gone; _invoke's own locals stay as they are.
Emit ==
    /\ pc = "returned"
    /\ caller = "invoke"
    /\ LET img == imgs.items[idx]
           is_file == img.kind = "file"
       IN out' = Append(out,
              IF Regressed(compressed_img.size, original_size)
              THEN Message("blob", "none", input_image_bytes,
                           IF is_file THEN "source" ELSE "original_image.jpg",
                           IF is_file THEN img.mime ELSE "image/jpeg",
                           original_size, idx)
              ELSE Message("blob", "none", compressed_img.file,
                           compressed_img.filename, MimeOf(compressed_img.format),
                           compressed_img.size, idx))
    /\ pc' = "yield_blob"
    /\ quality' = 0
    /\ min_quality' = 0
    /\ max_quality' = 0
    /\ best_result' = NoResult
    /\ result' = NoResult
    /\ i' = 0
    /\ encodes' = 0
    /\ observed' = {}
    /\ loop_exc' = FALSE
    /\ final_encode' = FALSE
    /\ UNCHANGED <<caller, imgs, target_size, idx, input_image_bytes, original_size,
                   compressed_img, ret_line, argVars>>

InvokeNext == Validate \/ Fetch \/ Finish \/ Compress95 \/ Emit

Init ==
    /\ pc = "invoke"
    /\ caller = "invoke"
    /\ IdleCall
    /\ imgs \in Inputs
    /\ target_size \in {0, 1}
    /\ idx = 0
    /\ out = <<>>
    /\ input_image_bytes = NoBytes
    /\ original_size = 0
    /\ image_file = NoBytes
    /\ target_size_bytes = 0
    /\ initial_quality = 0

Next == InvokeNext \/ IterNext

Spec == Init /\ [][Next]_vars

\* ------------------------------------- calculate_compression_quality alone
CalcTargets == {-1, 0, 1, 2, 4, 400}

InitCalc ==
    /\ pc = "calc"
    /\ caller = "calc"
    /\ IdleCall
    /\ imgs = NoInput
    /\ idx = 0
    /\ out = <<>>
    /\ input_image_bytes = NoBytes
    /\ image_file = NoBytes
    /\ target_size_bytes = 0
    /\ initial_quality = 0
    /\ original_size \in CalcSizes
    /\ target_size \in CalcTargets

Calc ==
    /\ pc = "calc"
    /\ pc' = "calc_done"
    /\ initial_quality' = calculate_compression_quality(original_size, target_size)
    /\ UNCHANGED <<caller, invokeVars, compressed_img, ret_line, image_file,
                   target_size_bytes, searchVars, result, histVars>>

SpecCalc == InitCalc /\ [][Calc]_vars

\* ================================================================ claims
Clamp(x, lo, hi) == Max(lo, Min(x, hi))

\* round(n / d) for n >= 0, d > 0, halves to the even integer
RoundDiv(n, d) ==
    LET q == n \div d
        r == n % d
    IN IF 2 * r < d THEN q
       ELSE IF 2 * r > d THEN q + 1
       ELSE IF q % 2 = 0 THEN q ELSE q + 1

UnderTarget == {s \in observed : s <= target_size_bytes}
NonPngCall == image_file.fmt # "PNG" /\ image_file.len > target_size_bytes
PngCall == image_file.fmt = "PNG" /\ image_file.len > target_size_bytes

\* C4: when the binary search ends without an early accept and some iteration
\* was at or under the target, the returned result is the largest observed
\* size that is at or under the target.
C4_LargestUnderTarget ==
    (pc = "returned" /\ ret_line = 283 /\ NonPngCall /\ UnderTarget # {})
        => /\ compressed_img.size <= target_size_bytes
           /\ \A s \in UnderTarget : s <= compressed_img.size

\* C5: a non-PNG call makes at most 5 encode passes, the final one included,
\* and never starts an iteration with max_quality - min_quality <= 3 or after
\* 5 iterations; a PNG call makes at most 3 encode passes and never enters
\* the binary search.
C5_BoundedWork ==
    /\ NonPngCall => encodes <= 5
    /\ pc = "loop" => (max_quality - min_quality > 3 /\ i < 5 /\ encodes = i)
    /\ PngCall => (encodes <= 3 /\ pc \notin {"loop", "after_loop"} /\ i = 0)
    /\ pc = "returned" /\ ret_line = 264 => encodes = i + 1

C5_Witness ==
    pc = "returned" /\ NonPngCall /\ encodes = 5 /\ max_quality - min_quality > 3

\* C6 as written: the quality is round(100 * targetBytes / originalSize)
\* clamped to [1,100], or 95 when there is no target or the source is under it.
C6_Rounded ==
    pc = "calc_done" =>
        /\ initial_quality \in 1..100
        /\ initial_quality =
             IF target_size <= 0 \/ original_size <= TargetBytes(target_size)
             THEN 95
             ELSE Clamp(RoundDiv(100 * TargetBytes(target_size), original_size), 1, 100)

\* C6 amended: the quotient is truncated, not rounded.
C6_Truncated ==
    pc = "calc_done" =>
        /\ initial_quality \in 1..100
        /\ initial_quality =
             IF target_size <= 0 \/ original_size <= TargetBytes(target_size)
             THEN 95
             ELSE Clamp((100 * TargetBytes(target_size)) \div original_size, 1, 100)

C6_Witness ==
    /\ pc = "calc_done"
    /\ target_size > 0
    /\ original_size > TargetBytes(target_size)
    /\ initial_quality = 65
    /\ RoundDiv(100 * TargetBytes(target_size), original_size) = 66

C8_FinalEncodeWhenAllOvershoot ==
    (pc = "returned" /\ ret_line = 283 /\ NonPngCall /\ UnderTarget = {})
        => /\ final_encode
           /\ compressed_img.file.q = min_quality

\* C9: an encoding exception in an iteration of the binary search, the first
\* one included, is not propagated to the caller.
C9_LoopExceptionNotPropagated ==
    (NonPngCall /\ loop_exc) => pc # "raised"

\* C10: at the start of every iteration 1 <= min_quality <= quality <=
\* max_quality <= 100; min_quality never decreases and max_quality never
\* increases from one iteration to the next.
C10_QualityBounds ==
    /\ [](pc = "loop" => /\ 1 <= min_quality
                         /\ min_quality <= quality
                         /\ quality <= max_quality
                         /\ max_quality <= 100)
    /\ [][pc = "loop" => (min_quality' >= min_quality /\ max_quality' <= max_quality)]_vars

C10_Witness ==
    /\ pc = "loop"
    /\ i = 4
    /\ min_quality > 1
    /\ max_quality < 100
    /\ min_quality < quality
    /\ quality < max_quality

LastMessage == out[Len(out)]

\* C1: the blob emitted for an image is never larger than its source: when
\* the compression result is strictly larger than the original, the payload
\* is the original bytes with metadata size the original size; otherwise the
\* payload is the compression result with that result's size.
C1_NeverLargerThanSource ==
    /\ \A k \in 1..Len(out) :
          out[k].type = "blob" =>
              /\ out[k].blob.len <= imgs.items[out[k].src].data.len
              /\ out[k].size = out[k].blob.len
    /\ pc = "yield_blob" =>
          /\ LastMessage.type = "blob"
          /\ IF compressed_img.size > original_size
             THEN /\ LastMessage.blob = input_image_bytes
                  /\ LastMessage.size = original_size
             ELSE /\ LastMessage.blob = compressed_img.file
                  /\ LastMessage.size = compressed_img.size

C1_Witness ==
    /\ pc = "yield_blob"
    /\ ret_line = 283
    /\ compressed_img.size > original_size
    /\ LastMessage.blob = input_image_bytes

\* C2: in a non-empty list batch a failure on one image never aborts the
\* batch: the run ends with exactly one message per image, in input order.
C2_BatchNeverAborted ==
    (caller = "invoke" /\ imgs.kind = "list" /\ pc \in {"done", "raised"})
        => /\ pc = "done"
           /\ Len(out) = Len(imgs.items)
           /\ \A k \in 1..Len(out) : out[k].src = k

UnderTargetImage ==
    pc = "yield_blob" /\ target_size > 0 /\ original_size <= target_size_bytes

\* C3 as written: through _invoke with a positive target, a source at or
\* under the target is emitted unmodified and marked compressed=false.
C3_Passthrough ==
    UnderTargetImage =>
        /\ LastMessage.blob = input_image_bytes
        /\ compressed_img.compressed = "false"

\* C3 amended: such a source is encoded once at quality 95 (the passthrough
\* of iterative_compress_image is not reached); the emitted bytes are the
\* input bytes exactly when that encode is larger than the source, and the
\* re-encoded bytes otherwise; the result carries no compressed flag.
C3_EncodedOnceAt95 ==
    UnderTargetImage =>
        /\ ret_line = 347
        /\ compressed_img.file.tag = "enc"
        /\ compressed_img.file.q = 95
        /\ compressed_img.compressed = "absent"
        /\ (LastMessage.blob = input_image_bytes) <=> (compressed_img.size > original_size)
        /\ compressed_img.size <= original_size => LastMessage.blob = compressed_img.file

C3_Witness ==
    /\ UnderTargetImage
    /\ LastMessage.blob.tag = "enc"
    /\ LastMessage.blob # input_image_bytes
====
